---- MODULE Spec2Model ----
(***************************************************************************)
(* Image views of vulkan-video-rs (src/resources/imageview.rs).            *)
(*                                                                         *)
(* An ImageView is a handle on a reference-counted ImageViewShared, which  *)
(* holds a share of the image's internal state (Rc<ImageShared>), a share  *)
(* of the device (Arc<DeviceShared>) and the native view handle.  The      *)
(* model follows the strong counts of the three kinds of shared state and  *)
(* the native create/destroy calls that the constructors and the Drop      *)
(* implementations issue.                                                  *)
(***************************************************************************)
EXTENDS Integers, Sequences, FiniteSets, TLC

\* ------------------------------------------------------------------ bounds
\* Creation attempts made, owners of one view state, and shares of image
\* states held by crate code.
MaxViews == 2
MaxOwners == 2
MaxLoose == 1
MaxCount == 2

Views == 1..MaxViews

\* The devices and images there can be: image i is an image of device i.
Devs == {1, 2}
Imgs == {1, 2}

\* ------------------------------------------------- native API (ash / Vulkan)
\* VK_NULL_HANDLE.  A driver never hands it out; the model's driver numbers
\* the view handles it hands out by the creation attempt they answer.
NullHandle == 0
NativeHandle(v) == 10 + v
NativeHandles == {NativeHandle(v) : v \in Views}

\* vk::Result codes create_image_view can return as Err.
VK_ERROR_OUT_OF_HOST_MEMORY == -1
VK_ERROR_OUT_OF_DEVICE_MEMORY == -2
NativeErrors == {VK_ERROR_OUT_OF_HOST_MEMORY, VK_ERROR_OUT_OF_DEVICE_MEMORY}

\* ash::vk enum values used by the test (Format::R8_UNORM, ImageViewType::
\* TYPE_2D, ImageAspectFlags::COLOR / DEPTH) and the Default values.
FORMAT_UNDEFINED == 0
FORMAT_R8_UNORM == 9
TYPE_1D == 0
TYPE_2D == 1
ASPECT_NONE == 0
ASPECT_COLOR == 1
ASPECT_DEPTH == 2

\* ------------------------------------------------------------ ImageViewInfo
ImageViewInfo_new ==
    [format |-> FORMAT_UNDEFINED, image_view_type |-> TYPE_1D,
     aspect_mask |-> ASPECT_NONE, layer_count |-> 0, level_count |-> 0]

format(self, f) == [self EXCEPT !.format = f]
image_view_type(self, t) == [self EXCEPT !.image_view_type = t]
aspect_mask(self, a) == [self EXCEPT !.aspect_mask = a]
layer_count(self, n) == [self EXCEPT !.layer_count = n]

\* Variant: the setter validates: a level count of zero is raised to one.
level_count_clamped(self, n) ==
    [self EXCEPT !.level_count = IF n = 0 THEN 1 ELSE n]

level_count(self, n) == [self EXCEPT !.level_count = n]

\* The values the setters are called with.
Formats == {FORMAT_UNDEFINED, FORMAT_R8_UNORM}
ViewTypes == {TYPE_1D, TYPE_2D}
Aspects == {ASPECT_NONE, ASPECT_COLOR, ASPECT_DEPTH}
Counts == 0..MaxCount

\* The configuration of test::crate_image_view.
TestInfo ==
    level_count(layer_count(image_view_type(format(aspect_mask(
        ImageViewInfo_new, ASPECT_COLOR), FORMAT_R8_UNORM), TYPE_2D), 1), 1)

\* The configurations the operations are called with: the test's, one whose
\* aspect the image lacks, one with more mip levels and one with more layers
\* than the image has.
Infos ==
    {TestInfo, aspect_mask(TestInfo, ASPECT_DEPTH), level_count(TestInfo, 2),
     layer_count(TestInfo, 2)}

\* ------------------------------------------------- the images and devices
\* Every image is the test's image: R8_UNORM (a colour format), one mip
\* level, one array layer.  Image i lives on device ImgDevice(i).
ImgDevice(i) == i
ImgNative(i) == 100 + i
ImgOfNative(h) == h - 100
ImgFormat(i) == FORMAT_R8_UNORM
ImgAspect(i) == ASPECT_COLOR
ImgMipLevels(i) == 1
ImgArrayLayers(i) == 1

\* -------------------------------------------------------------------- state
VARIABLES
    devWrapper,     \* [Devs -> BOOLEAN]  the application holds the Device
    devRc,          \* [Devs -> Nat]      strong count of Arc<DeviceShared>
    devDestroyed,   \* [Devs -> Nat]      native destroy-device calls issued
    imgWrapper,     \* [Imgs -> BOOLEAN]  the application holds the Image
    imgLoose,       \* [Imgs -> Nat]      Rc<ImageShared> held by crate code
    imgRc,          \* [Imgs -> Nat]      strong count of Rc<ImageShared>
    imgDestroyed,   \* [Imgs -> Nat]      native destroy-image calls issued
    viewState,      \* [Views -> {"Uninitialized", "Live", "Destroyed"}]
    shared_image,   \* [Views -> Imgs \cup {0}]   ImageViewShared.shared_image
    shared_device,  \* [Views -> Devs \cup {0}]   ImageViewShared.shared_device
    native_view,    \* [Views -> handle]          ImageViewShared.native_view
    viewHandle,     \* [Views -> BOOLEAN]  the ImageView wrapper is held
    viewRcs,        \* [Views -> Nat]      other owners of the view state
    viewCreates,    \* [Views -> Nat]      native create calls of the attempt
    viewDestroys,   \* [Views -> Nat]      native destroy-view calls issued
    nextView,       \* the next unused creation attempt
    calls,          \* native calls issued by the last operation, in order
    ret,            \* what the last operation returned
    builder         \* the ImageViewInfo the application is putting together

vars ==
    <<devWrapper, devRc, devDestroyed, imgWrapper, imgLoose, imgRc,
      imgDestroyed, viewState, shared_image, shared_device, native_view,
      viewHandle, viewRcs, viewCreates, viewDestroys, nextView, calls, ret,
      builder>>

appVars == <<devWrapper, imgWrapper, imgLoose, builder>>
viewFields == <<viewState, shared_image, shared_device, native_view>>
viewOwners == <<viewHandle, viewRcs>>

\* Shares of image states held by crate code.
Loose == Cardinality({p \in Imgs \X (1..MaxLoose) : p[2] <= imgLoose[p[1]]})

\* Number of owners of view state v: the ImageView wrapper plus the
\* Rc<ImageViewShared> handed out by shared() (or the crate-internal owner of
\* a state made by ImageViewShared::new directly).
Owners(v) == (IF viewHandle[v] THEN 1 ELSE 0) + viewRcs[v]

NoInfo == [image |-> NullHandle, format |-> FORMAT_UNDEFINED,
           view_type |-> TYPE_1D, aspect_mask |-> ASPECT_NONE,
           base_mip_level |-> 0, level_count |-> 0,
           base_array_layer |-> 0, layer_count |-> 0]

\* One native call: the device it went to, the object it names, the create
\* info (creation only) and what the driver answered.
Call(op, d, obj, info, result) ==
    [op |-> op, dev |-> d, obj |-> obj, info |-> info, result |-> result]

NativeOk(h) == [ok |-> TRUE, handle |-> h, code |-> 0]
NativeErr(c) == [ok |-> FALSE, handle |-> NullHandle, code |-> c]
NoResult == [ok |-> TRUE, handle |-> NullHandle, code |-> 0]

\* The counters that releasing a share can touch, threaded through the drop
\* glue of one operation.
World ==
    [devRc |-> devRc, devDestroyed |-> devDestroyed, imgRc |-> imgRc,
     imgDestroyed |-> imgDestroyed, viewDestroys |-> viewDestroys,
     calls |-> << >>]

SetWorld(w) ==
    /\ devRc' = w.devRc
    /\ devDestroyed' = w.devDestroyed
    /\ imgRc' = w.imgRc
    /\ imgDestroyed' = w.imgDestroyed
    /\ viewDestroys' = w.viewDestroys
    /\ calls' = w.calls

\* -------------------------------------------- Device and Image collaborators
\* Arc<DeviceShared>::clone (ImageShared::device(), line 60).
CloneDeviceShared(w, d) == [w EXCEPT !.devRc[d] = @ + 1]

\* Dropping one Arc<DeviceShared>: the last one runs DeviceShared's Drop,
\* which destroys the native device.
DropDeviceShared(w, d) ==
    IF w.devRc[d] = 1
    THEN [w EXCEPT !.devRc[d] = 0,
                   !.devDestroyed[d] = @ + 1,
                   !.calls = Append(@, Call("destroy_device", d, d, NoInfo, NoResult))]
    ELSE [w EXCEPT !.devRc[d] = @ - 1]

\* Rc<ImageShared>::clone (Image::shared(), line 113; line 92).
CloneImageShared(w, i) == [w EXCEPT !.imgRc[i] = @ + 1]

\* Dropping one Rc<ImageShared>: the last one runs ImageShared's Drop, which
\* destroys the native image on the image's device and then releases the
\* image's share of the device.
DropImageShared(w, i) ==
    IF w.imgRc[i] = 1
    THEN DropDeviceShared(
             [w EXCEPT !.imgRc[i] = 0,
                       !.imgDestroyed[i] = @ + 1,
                       !.calls = Append(@, Call("destroy_image", ImgDevice(i),
                                               ImgNative(i), NoInfo, NoResult))],
             ImgDevice(i))
    ELSE [w EXCEPT !.imgRc[i] = @ - 1]

\* ---------------------------------------------------------- native driver
\* Valid usage of vkCreateImageView for the images modelled: the format and
\* the aspect are the image's, the view is 2D, and the mip and layer ranges
\* are non-empty and inside the image.
ValidUsage(ci) ==
    LET i == ImgOfNative(ci.image) IN
    /\ i \in Imgs
    /\ ci.format = ImgFormat(i)
    /\ ci.view_type = TYPE_2D
    /\ ci.aspect_mask = ImgAspect(i)
    /\ ci.level_count >= 1
    /\ ci.base_mip_level + ci.level_count <= ImgMipLevels(i)
    /\ ci.layer_count >= 1
    /\ ci.base_array_layer + ci.layer_count <= ImgArrayLayers(i)

\* What ash's create_image_view can answer to creation attempt v.  A call with valid usage yields a
\* non-null handle or fails for lack of memory.  The driver does not check
\* valid usage (the call is `unsafe`, line 76): breaking it is undefined
\* behaviour, which may report any error or hand out a handle all the same.
create_image_view(ci, v) ==
    IF ValidUsage(ci)
    THEN {NativeOk(NativeHandle(v))} \cup {NativeErr(c) : c \in NativeErrors}
    ELSE {NativeErr(c) : c \in NativeErrors} \cup {NativeOk(NativeHandle(v))}

\* ------------------------------------------------------------------- Error
\* `?` on a vk::Result: Error::from wraps the native code.
ErrorFrom(code) == [kind |-> "Vulkan", code |-> code]
NoError == [kind |-> "None", code |-> 0]

\* --------------------------------------------------------- ImageViewShared
\* Variant: the layer count and the level count change places in the
\* subresource range.
ImageViewCreateInfo_swapped(native_image, info) ==
    [image |-> native_image, format |-> info.format,
     view_type |-> info.image_view_type, aspect_mask |-> info.aspect_mask,
     base_mip_level |-> 0, level_count |-> info.layer_count,
     base_array_layer |-> 0, layer_count |-> info.level_count]

\* Lines 65-74: the create info built from the image's native handle and the
\* configuration (base mip level and base array layer stay at Default).
ImageViewCreateInfo(native_image, info) ==
    [image |-> native_image, format |-> info.format,
     view_type |-> info.image_view_type, aspect_mask |-> info.aspect_mask,
     base_mip_level |-> 0, level_count |-> info.level_count,
     base_array_layer |-> 0, layer_count |-> info.layer_count]

NoFields == [shared_image |-> 0, shared_device |-> 0, native_view |-> NullHandle]

\* Lines 60-77 of ImageViewShared::new: the device is resolved from the image
\* state, the create info is built and the native call is issued; `out` is
\* the driver's answer.
CreateCall(w, i, info, out) ==
    LET d == ImgDevice(i)
        w1 == CloneDeviceShared(w, d)
        ci == ImageViewCreateInfo(ImgNative(i), info)
    IN  [w1 EXCEPT !.calls = Append(@, Call("create_image_view", d,
                                            ImgNative(i), ci, out))]

\* Lines 79-83: the state returned on success.
Fields(i, h) ==
    [shared_image |-> i, shared_device |-> ImgDevice(i), native_view |-> h]

\* The early return of `?`: the locals are dropped, shared_device first, then
\* the shared_image argument.
DropLocals(w, i) == DropImageShared(DropDeviceShared(w, ImgDevice(i)), i)

\* Variant: the state keeps the native handle only and lets go of its shares
\* of the image state and of the device.
ImageViewShared_new_unowned(w, i, info, out) ==
    LET w3 == DropLocals(CreateCall(w, i, info, out), i)
    IN  IF out.ok
        THEN [w |-> w3, ok |-> TRUE, err |-> NoError,
              fields |-> Fields(i, out.handle)]
        ELSE [w |-> w3, ok |-> FALSE, err |-> ErrorFrom(out.code),
              fields |-> NoFields]

\* Variant: a failed native call is issued a second time before giving up.
ImageViewShared_new_retry(w, i, info, out) ==
    LET w2 == CreateCall(w, i, info, out)
    IN  IF out.ok
        THEN [w |-> w2, ok |-> TRUE, err |-> NoError,
              fields |-> Fields(i, out.handle)]
        ELSE [w |-> DropLocals([w2 EXCEPT !.calls = Append(@, w2.calls[1])], i),
              ok |-> FALSE, err |-> ErrorFrom(out.code), fields |-> NoFields]

\* Variant: the early return forgets to release the device share.
ImageViewShared_new_leak(w, i, info, out) ==
    LET w2 == CreateCall(w, i, info, out)
    IN  IF out.ok
        THEN [w |-> w2, ok |-> TRUE, err |-> NoError,
              fields |-> Fields(i, out.handle)]
        ELSE [w |-> DropImageShared(w2, i), ok |-> FALSE,
              err |-> ErrorFrom(out.code), fields |-> NoFields]

\* Variant: the state is built with a Default (null) handle instead of the
\* one the call returned.
ImageViewShared_new_nullhandle(w, i, info, out) ==
    LET w2 == CreateCall(w, i, info, out)
    IN  IF out.ok
        THEN [w |-> w2, ok |-> TRUE, err |-> NoError,
              fields |-> Fields(i, NullHandle)]
        ELSE [w |-> DropLocals(w2, i), ok |-> FALSE,
              err |-> ErrorFrom(out.code), fields |-> NoFields]

\* Variant: every failure is reported as out of host memory.
ImageViewShared_new_wrongcode(w, i, info, out) ==
    LET w2 == CreateCall(w, i, info, out)
    IN  IF out.ok
        THEN [w |-> w2, ok |-> TRUE, err |-> NoError,
              fields |-> Fields(i, out.handle)]
        ELSE [w |-> DropLocals(w2, i), ok |-> FALSE,
              err |-> ErrorFrom(VK_ERROR_OUT_OF_HOST_MEMORY),
              fields |-> NoFields]

\* Variant: the error of the native call is swallowed (unwrap_or_default) and
\* a state with the null handle is returned.
ImageViewShared_new_swallow(w, i, info, out) ==
    [w |-> CreateCall(w, i, info, out), ok |-> TRUE, err |-> NoError,
     fields |-> Fields(i, out.handle)]

\* ImageViewShared::new(shared_image, info), with the share of image i already
\* counted in w.
ImageViewShared_new(w, i, info, out) ==
    LET w2 == CreateCall(w, i, info, out)
    IN  IF out.ok
        THEN [w |-> w2, ok |-> TRUE, err |-> NoError,
              fields |-> Fields(i, out.handle)]
        ELSE [w |-> DropLocals(w2, i), ok |-> FALSE,
              err |-> ErrorFrom(out.code), fields |-> NoFields]

\* Variant: the destructor of the view destroys the native image as well.
ImageViewShared_drop_image(w, v) ==
    LET w1 == [w EXCEPT !.viewDestroys[v] = @ + 1,
                        !.imgDestroyed[shared_image[v]] = @ + 1,
                        !.calls = Append(@, Call("destroy_image_view",
                                                 shared_device[v], native_view[v],
                                                 NoInfo, NoResult))
                                  \o <<Call("destroy_image", shared_device[v],
                                            ImgNative(shared_image[v]), NoInfo,
                                            NoResult)>>]
    IN  DropDeviceShared(DropImageShared(w1, shared_image[v]), shared_device[v])

\* Variant: the destructor destroys the handle of every view of the same
\* image, not only its own.
ImageViewShared_drop_siblings(w, v) ==
    LET sib == {u \in Views : viewState[u] = "Live"
                               /\ shared_image[u] = shared_image[v]}
        all == [u \in 1..MaxViews |->
                   Call("destroy_image_view", shared_device[u], native_view[u],
                        NoInfo, NoResult)]
        w1 == [w EXCEPT !.viewDestroys =
                            [u \in Views |-> IF u \in sib THEN @[u] + 1 ELSE @[u]],
                        !.calls = @ \o SelectSeq(all,
                                      LAMBDA c : \E u \in sib : c.obj = native_view[u])]
    IN  DropDeviceShared(DropImageShared(w1, shared_image[v]), shared_device[v])

\* Variant: the fields are released first and the native view is destroyed
\* after them.
ImageViewShared_drop_late(w, v) ==
    LET w1 == DropDeviceShared(DropImageShared(w, shared_image[v]), shared_device[v])
    IN  [w1 EXCEPT !.viewDestroys[v] = @ + 1,
                   !.calls = Append(@, Call("destroy_image_view",
                                            shared_device[v], native_view[v],
                                            NoInfo, NoResult))]

\* Variant: the destroy call goes to a device other than the one the state
\* holds.
ImageViewShared_drop_elsewhere(w, v) ==
    LET other == CHOOSE d \in Devs : d # shared_device[v]
        w1 == [w EXCEPT !.viewDestroys[v] = @ + 1,
                        !.calls = Append(@, Call("destroy_image_view", other,
                                                 native_view[v], NoInfo, NoResult))]
    IN  DropDeviceShared(DropImageShared(w1, shared_image[v]), shared_device[v])

\* Drop for ImageViewShared (lines 96-104), then the fields in declaration
\* order: shared_image, shared_device.
ImageViewShared_drop(w, v) ==
    LET w1 == [w EXCEPT !.viewDestroys[v] = @ + 1,
                        !.calls = Append(@, Call("destroy_image_view",
                                                 shared_device[v], native_view[v],
                                                 NoInfo, NoResult))]
    IN  DropDeviceShared(DropImageShared(w1, shared_image[v]), shared_device[v])

\* Variant: every owner's drop runs the destructor of the state.
DropOwner_every(w, v, left) == ImageViewShared_drop(w, v)

\* Dropping one owner of view state v when `left` owners remain.
DropOwner(w, v, left) == IF left = 0 THEN ImageViewShared_drop(w, v) ELSE w

\* ImageViewShared::native (lines 87-89).
ImageViewShared_native(v) == native_view[v]

\* ImageViewShared::image (lines 91-93): which image state gets one more share.
ImageViewShared_image(v) == shared_image[v]

\* --------------------------------------------------------------- ImageView
\* Variant: the handle is handed out without being counted.
ImageView_shared_uncounted(rcs) == rcs

\* ImageView::shared (line 121): Rc::clone of shared_view.
ImageView_shared(rcs) == rcs + 1

\* ImageView::native (lines 124-126).
ImageView_native(v) == ImageViewShared_native(v)

\* Variant: native_image() answers with the view's own handle.
ImageView_native_image_view(v) == native_view[v]

\* ImageView::native_image (lines 128-130).
ImageView_native_image(v) == ImgNative(shared_image[v])

\* ------------------------------------------------------------------ results
Ret(op, v, ok, val, err) == [op |-> op, view |-> v, ok |-> ok, val |-> val, err |-> err]

\* Dropping a value returns nothing.
NoRet == Ret("drop", 0, TRUE, 0, NoError)

CountCalls(cs, op) == Cardinality({k \in 1..Len(cs) : cs[k].op = op})

\* A creation attempt v that produced state f with the given owners.
Install(v, f, handle, rcs) ==
    /\ viewState' = [viewState EXCEPT ![v] = "Live"]
    /\ shared_image' = [shared_image EXCEPT ![v] = f.shared_image]
    /\ shared_device' = [shared_device EXCEPT ![v] = f.shared_device]
    /\ native_view' = [native_view EXCEPT ![v] = f.native_view]
    /\ viewHandle' = [viewHandle EXCEPT ![v] = handle]
    /\ viewRcs' = [viewRcs EXCEPT ![v] = rcs]

\* The view state is gone once its last owner is.  The fields keep what the
\* state held, as a record of what was destroyed.
Forget(v, left) ==
    /\ viewState' = [viewState EXCEPT ![v] = IF left = 0 THEN "Destroyed" ELSE @]
    /\ UNCHANGED <<shared_image, shared_device, native_view>>

\* ------------------------------------------------------------------ actions
\* The application has made the devices ds and the images is of them and holds
\* a Device and an Image for each; no view exists yet.
InitScene(ds, is) ==
    /\ devWrapper = [d \in Devs |-> d \in ds]
    /\ devRc = [d \in Devs |-> IF d \in ds
                                THEN 1 + Cardinality({i \in is : ImgDevice(i) = d})
                                ELSE 0]
    /\ devDestroyed = [d \in Devs |-> 0]
    /\ imgWrapper = [i \in Imgs |-> i \in is]
    /\ imgLoose = [i \in Imgs |-> 0]
    /\ imgRc = [i \in Imgs |-> IF i \in is THEN 1 ELSE 0]
    /\ imgDestroyed = [i \in Imgs |-> 0]
    /\ viewState = [v \in Views |-> "Uninitialized"]
    /\ shared_image = [v \in Views |-> 0]
    /\ shared_device = [v \in Views |-> 0]
    /\ native_view = [v \in Views |-> NullHandle]
    /\ viewHandle = [v \in Views |-> FALSE]
    /\ viewRcs = [v \in Views |-> 0]
    /\ viewCreates = [v \in Views |-> 0]
    /\ viewDestroys = [v \in Views |-> 0]
    /\ nextView = 1
    /\ calls = << >>
    /\ ret = NoRet
    /\ builder = ImageViewInfo_new

\* The set-up of test::crate_image_view: one device and one image of it.
Init == InitScene({1}, {1})

\* The outcome r of ImageViewShared::new for attempt v, whose state (if any)
\* gets the owners given.
Created(op, v, r, handle, rcs) ==
    /\ SetWorld(r.w)
    /\ viewCreates' = [viewCreates EXCEPT ![v] = @ + CountCalls(r.w.calls, "create_image_view")]
    /\ nextView' = v + 1
    /\ IF r.ok
       THEN /\ Install(v, r.fields, handle, rcs)
            /\ ret' = Ret(op, v, TRUE, r.fields.native_view, NoError)
       ELSE /\ UNCHANGED <<viewFields, viewOwners>>
            /\ ret' = Ret(op, v, FALSE, NullHandle, r.err)

\* ImageView::new(&image, &info) (lines 112-118).
ImageView_new(i, info) ==
    /\ imgWrapper[i]
    /\ nextView <= MaxViews
    /\ \E out \in create_image_view(ImageViewCreateInfo(ImgNative(i), info), nextView) :
           Created("ImageView::new", nextView,
                   ImageViewShared_new(CloneImageShared(World, i), i, info, out),
                   TRUE, 0)
    /\ UNCHANGED appVars

\* ImageViewShared::new(shared_image, &info) called by crate code with a share
\* it holds; the share moves into the call.
ImageViewShared_new_direct(i, info) ==
    /\ imgLoose[i] > 0
    /\ nextView <= MaxViews
    /\ imgLoose' = [imgLoose EXCEPT ![i] = @ - 1]
    /\ \E out \in create_image_view(ImageViewCreateInfo(ImgNative(i), info), nextView) :
           Created("ImageViewShared::new", nextView,
                   ImageViewShared_new(World, i, info, out), FALSE, 1)
    /\ UNCHANGED <<devWrapper, imgWrapper, builder>>

\* view.shared() (lines 120-122).
Shared(v) ==
    /\ viewHandle[v]
    /\ Owners(v) < MaxOwners
    /\ viewRcs' = [viewRcs EXCEPT ![v] = ImageView_shared(@)]
    /\ calls' = << >>
    /\ ret' = Ret("shared", v, TRUE, v, NoError)
    /\ UNCHANGED <<appVars, devRc, devDestroyed, imgRc, imgDestroyed, viewFields,
                   viewHandle, viewCreates, viewDestroys, nextView>>

\* The ImageView goes out of scope.
DropImageView(v) ==
    /\ viewHandle[v]
    /\ viewHandle' = [viewHandle EXCEPT ![v] = FALSE]
    /\ SetWorld(DropOwner(World, v, Owners(v) - 1))
    /\ Forget(v, Owners(v) - 1)
    /\ ret' = NoRet
    /\ UNCHANGED <<appVars, viewRcs, viewCreates, nextView>>

\* An Rc<ImageViewShared> (or an owned ImageViewShared) goes out of scope.
DropShared(v) ==
    /\ viewRcs[v] > 0
    /\ viewRcs' = [viewRcs EXCEPT ![v] = @ - 1]
    /\ SetWorld(DropOwner(World, v, Owners(v) - 1))
    /\ Forget(v, Owners(v) - 1)
    /\ ret' = NoRet
    /\ UNCHANGED <<appVars, viewHandle, viewCreates, nextView>>

\* view.native().
Native(v) ==
    /\ viewHandle[v]
    /\ calls' = << >>
    /\ ret' = Ret("native", v, TRUE, ImageView_native(v), NoError)
    /\ UNCHANGED <<appVars, devRc, devDestroyed, imgRc, imgDestroyed, viewFields,
                   viewOwners, viewCreates, viewDestroys, nextView>>

\* view.native_image().
NativeImage(v) ==
    /\ viewHandle[v]
    /\ calls' = << >>
    /\ ret' = Ret("native_image", v, TRUE, ImageView_native_image(v), NoError)
    /\ UNCHANGED <<appVars, devRc, devDestroyed, imgRc, imgDestroyed, viewFields,
                   viewOwners, viewCreates, viewDestroys, nextView>>

\* Variant: the accessor hands out the view's own share without counting it.
OwningImage_borrowed(v) ==
    /\ Owners(v) > 0
    /\ Loose < MaxLoose
    /\ imgLoose' = [imgLoose EXCEPT ![ImageViewShared_image(v)] = @ + 1]
    /\ SetWorld(World)
    /\ ret' = Ret("image", v, TRUE, ImageViewShared_image(v), NoError)
    /\ UNCHANGED <<devWrapper, imgWrapper, viewFields, viewOwners, viewCreates,
                   nextView, builder>>

\* shared_view.image(), through any owner of the view state.
OwningImage(v) ==
    /\ Owners(v) > 0
    /\ Loose < MaxLoose
    /\ imgLoose' = [imgLoose EXCEPT ![ImageViewShared_image(v)] = @ + 1]
    /\ SetWorld(CloneImageShared(World, ImageViewShared_image(v)))
    /\ ret' = Ret("image", v, TRUE, ImageViewShared_image(v), NoError)
    /\ UNCHANGED <<devWrapper, imgWrapper, viewFields, viewOwners, viewCreates,
                   nextView, builder>>

\* A share of the image state held by crate code goes out of scope.
DropImageShare(i) ==
    /\ imgLoose[i] > 0
    /\ imgLoose' = [imgLoose EXCEPT ![i] = @ - 1]
    /\ SetWorld(DropImageShared(World, i))
    /\ ret' = NoRet
    /\ UNCHANGED <<devWrapper, imgWrapper, viewFields, viewOwners, viewCreates,
                   nextView, builder>>

\* The application's Image goes out of scope.
DropImage(i) ==
    /\ imgWrapper[i]
    /\ imgWrapper' = [imgWrapper EXCEPT ![i] = FALSE]
    /\ SetWorld(DropImageShared(World, i))
    /\ ret' = NoRet
    /\ UNCHANGED <<devWrapper, imgLoose, viewFields, viewOwners, viewCreates,
                   nextView, builder>>

\* The application's Device goes out of scope.
DropDevice(d) ==
    /\ devWrapper[d]
    /\ devWrapper' = [devWrapper EXCEPT ![d] = FALSE]
    /\ SetWorld(DropDeviceShared(World, d))
    /\ ret' = NoRet
    /\ UNCHANGED <<imgWrapper, imgLoose, viewFields, viewOwners, viewCreates,
                   nextView, builder>>

Next ==
    \/ \E i \in Imgs, info \in Infos : ImageView_new(i, info)
    \/ \E i \in Imgs, info \in Infos : ImageViewShared_new_direct(i, info)
    \/ \E v \in Views : Shared(v)
    \/ \E v \in Views : DropImageView(v)
    \/ \E v \in Views : DropShared(v)
    \/ \E v \in Views : Native(v)
    \/ \E v \in Views : NativeImage(v)
    \/ \E v \in Views : OwningImage(v)
    \/ \E i \in Imgs : DropImageShare(i)
    \/ \E i \in Imgs : DropImage(i)
    \/ \E d \in Devs : DropDevice(d)

Spec == Init /\ [][Next]_vars

\* ------------------------------------------------- building a configuration
\* What a step on the ImageViewInfo leaves alone.
sysVars ==
    <<devWrapper, devRc, devDestroyed, imgWrapper, imgLoose, imgRc,
      imgDestroyed, viewFields, viewOwners, viewCreates, viewDestroys, nextView>>

\* A step on the ImageViewInfo: `op` was called and `info` is what it returned.
Built(op, info) ==
    /\ builder' = info
    /\ calls' = << >>
    /\ ret' = Ret(op, 0, TRUE, 0, NoError)
    /\ UNCHANGED sysVars

\* ImageViewInfo::new().
NewInfo == Built("ImageViewInfo::new", ImageViewInfo_new)

\* builder.format(f), and so on for the other setters.
SetFormat(f) == Built("format", format(builder, f))
SetImageViewType(t) == Built("image_view_type", image_view_type(builder, t))
SetAspectMask(a) == Built("aspect_mask", aspect_mask(builder, a))
SetLayerCount(n) == Built("layer_count", layer_count(builder, n))
SetLevelCount(n) == Built("level_count", level_count(builder, n))

BuilderNext ==
    \/ NewInfo
    \/ \E f \in Formats : SetFormat(f)
    \/ \E t \in ViewTypes : SetImageViewType(t)
    \/ \E a \in Aspects : SetAspectMask(a)
    \/ \E n \in Counts : SetLayerCount(n)
    \/ \E n \in Counts : SetLevelCount(n)

\* The application only puts configurations together.
BuilderSpec == Init /\ [][BuilderNext]_vars

\* -------------------------------------------------------- several devices
\* The application made two devices and an image on each, and makes, shares
\* and drops views of them.
DevicesInit == InitScene(Devs, Imgs)

DevicesNext ==
    \/ \E i \in Imgs, info \in Infos : ImageView_new(i, info)
    \/ \E v \in Views : Shared(v)
    \/ \E v \in Views : DropImageView(v)
    \/ \E v \in Views : DropShared(v)
    \/ \E i \in Imgs : DropImage(i)
    \/ \E d \in Devs : DropDevice(d)

DevicesSpec == DevicesInit /\ [][DevicesNext]_vars

\* ---------------------------------------------------------- sanity of model
TypeOK ==
    /\ builder \in [format : Formats, image_view_type : ViewTypes,
                     aspect_mask : Aspects, layer_count : Counts,
                     level_count : Counts]
    /\ devWrapper \in [Devs -> BOOLEAN]
    /\ devRc \in [Devs -> Nat]
    /\ devDestroyed \in [Devs -> 0..1]
    /\ imgWrapper \in [Imgs -> BOOLEAN]
    /\ imgLoose \in [Imgs -> 0..MaxLoose]
    /\ imgRc \in [Imgs -> Nat]
    /\ imgDestroyed \in [Imgs -> 0..1]
    /\ viewState \in [Views -> {"Uninitialized", "Live", "Destroyed"}]
    /\ shared_image \in [Views -> Imgs \cup {0}]
    /\ shared_device \in [Views -> Devs \cup {0}]
    /\ native_view \in [Views -> NativeHandles \cup {NullHandle}]
    /\ viewHandle \in [Views -> BOOLEAN]
    /\ viewRcs \in [Views -> 0..MaxOwners]
    /\ nextView \in 1..(MaxViews + 1)

\* The strong counts are the owners that exist.
CountsOK ==
    /\ \A i \in Imgs :
           imgRc[i] = (IF imgWrapper[i] THEN 1 ELSE 0) + imgLoose[i]
                      + Cardinality({v \in Views : viewState[v] = "Live" /\ shared_image[v] = i})
    /\ \A d \in Devs :
           devRc[d] = (IF devWrapper[d] THEN 1 ELSE 0)
                      + Cardinality({i \in Imgs : ImgDevice(i) = d /\ imgRc[i] > 0})
                      + Cardinality({v \in Views : viewState[v] = "Live" /\ shared_device[v] = d})

\* =================================================================== claims
IsNew(r) == r.op \in {"ImageView::new", "ImageViewShared::new"}

\* Positions of the calls of one kind in a sequence of native calls.
CallsOf(cs, op) == {k \in 1..Len(cs) : cs[k].op = op}

\* Native destroy-image-view calls naming handle h.
DestroyCallsFor(cs, h) ==
    Cardinality({k \in CallsOf(cs, "destroy_image_view") : cs[k].obj = h})

Live(v) == viewState[v] = "Live"

\* C1: for every view state, the native destroy-image-view call for its
\* handle is issued exactly once, in the very step that drops its last owner
\* (ImageView or Rc from shared()): no step issues it while an owner remains,
\* and none issues it a second time.
C1_DestroyedOnceWithLastOwner ==
    [][\A v \in Views :
         LET n == DestroyCallsFor(calls', native_view[v]) IN
         /\ n = (IF Owners(v) > 0 /\ Owners(v)' = 0 THEN 1 ELSE 0)
         /\ viewDestroys'[v] = viewDestroys[v] + n
         /\ viewDestroys'[v] <= 1
         /\ (Owners(v)' > 0 => viewDestroys'[v] = 0)]_vars

\* A view that was shared has lost all its owners, ImageView first, and the
\* last drop issued its one destroy call while a sibling still has two owners.
C1_Witness ==
    \E v, u \in Views :
        /\ viewState[v] = "Destroyed"
        /\ viewDestroys[v] = 1
        /\ DestroyCallsFor(calls, native_view[v]) = 1
        /\ Live(u) /\ Owners(u) = 2

\* C2: whenever a view state is Live, neither the native image it was created
\* from nor its device has been destroyed, whichever of the Image wrapper,
\* the Device wrapper and the other views were dropped before.
C2_LiveViewKeepsImageAndDevice ==
    \A v \in Views :
        Live(v) =>
            /\ imgDestroyed[shared_image[v]] = 0
            /\ devDestroyed[shared_device[v]] = 0
            /\ devDestroyed[ImgDevice(shared_image[v])] = 0
            /\ imgRc[shared_image[v]] > 0
            /\ devRc[shared_device[v]] > 0

\* A view is Live although the application dropped its Image, its Device and
\* a sibling view of the same image.
C2_Witness ==
    \E v, u \in Views :
        /\ Live(v)
        /\ ~imgWrapper[shared_image[v]]
        /\ ~devWrapper[shared_device[v]]
        /\ viewState[u] = "Destroyed"
        /\ shared_image[u] = shared_image[v]

\* C3: shared() makes no native call (no create, no destroy), leaves the
\* native view handle and the image and device share counts unchanged, and
\* changes only the owner count of the one view state, which grows by one;
\* the handle returned refers to the same state.
C3_SharedOnlyCountsOwner ==
    [][\A v \in Views : (ret'.op = "shared" /\ ret'.view = v) =>
         /\ ret'.val = v
         /\ Live(v) /\ Live(v)'
         /\ Owners(v)' = Owners(v) + 1
         /\ \A u \in Views \ {v} : Owners(u)' = Owners(u)
         /\ calls' = << >>
         /\ UNCHANGED <<viewCreates, viewDestroys, imgDestroyed, devDestroyed>>
         /\ UNCHANGED <<native_view, shared_image, shared_device, viewState>>
         /\ UNCHANGED <<imgRc, devRc, imgLoose, imgWrapper, devWrapper>>]_vars

\* shared() has just handed out a second owner of a Live view.
C3_Witness ==
    /\ ret.op = "shared"
    /\ Live(ret.view)
    /\ viewHandle[ret.view]
    /\ viewRcs[ret.view] = 1

\* The native create calls among cs.
Creates(cs) == {cs[k] : k \in CallsOf(cs, "create_image_view")}

\* The last operation was a creation whose native call failed / was accepted.
NativeFailed == IsNew(ret) /\ \E c \in Creates(calls) : ~c.result.ok
NativeAccepted == IsNew(ret) /\ \E c \in Creates(calls) : c.result.ok

\* Creation attempt v was made and produced no state.
Failed(v) == v < nextView /\ viewState[v] = "Uninitialized"

\* C4: when the native create call fails, new returns an error carrying
\* exactly the native error code; no view state becomes Live and no handle is
\* stored; exactly one native create call was made; and no native
\* destroy-image-view call is issued for the attempt, then or later.
C4_FailedCreateReturnsNativeError ==
    /\ NativeFailed =>
           /\ ~ret.ok
           /\ \A c \in Creates(calls) : ret.err.code = c.result.code
           /\ ret.err.code \in NativeErrors
           /\ ret.val = NullHandle
           /\ Failed(ret.view)
           /\ Cardinality(CallsOf(calls, "create_image_view")) = 1
           /\ CallsOf(calls, "destroy_image_view") = {}
    /\ \A v \in Views :
           Failed(v) =>
               /\ native_view[v] = NullHandle
               /\ Owners(v) = 0
               /\ viewCreates[v] = 1
               /\ viewDestroys[v] = 0

\* ImageView::new has just failed with the driver out of device memory, after
\* an earlier attempt failed too and stayed without state.
C4_Witness ==
    /\ ret.op = "ImageView::new"
    /\ ~ret.ok
    /\ ret.err.code = VK_ERROR_OUT_OF_DEVICE_MEMORY
    /\ ret.view = 2
    /\ Failed(1) /\ Failed(2)

\* C5: dropping the last owner of a view while the Image and the Device are
\* still held destroys neither the native image nor the device; and an
\* ImageView::new that the native API accepts, also one on the same image
\* after that, succeeds with a Live view of its own and leaves every other
\* view state as it was.
C5_ViewDropSparesImageAndDevice ==
    [][\A v \in Views :
         /\ (/\ Owners(v) > 0 /\ Owners(v)' = 0
             /\ imgWrapper[shared_image[v]] /\ devWrapper[shared_device[v]])
            => /\ imgDestroyed' = imgDestroyed
               /\ devDestroyed' = devDestroyed
               /\ CallsOf(calls', "destroy_image") = {}
               /\ CallsOf(calls', "destroy_device") = {}
               /\ imgRc'[shared_image[v]] = imgRc[shared_image[v]] - 1
               /\ imgRc'[shared_image[v]] >= 1
               /\ devRc'[shared_device[v]] >= 1
         /\ (ret'.op = "ImageView::new" /\ ret'.view = v /\ NativeAccepted')
            => /\ ret'.ok
               /\ viewState[v] = "Uninitialized" /\ viewState'[v] = "Live"
               /\ Owners(v)' = 1
               /\ \A u \in Views \ {v} :
                      /\ viewState'[u] = viewState[u]
                      /\ native_view'[u] = native_view[u]
                      /\ Owners(u)' = Owners(u)
                      /\ viewDestroys'[u] = viewDestroys[u]]_vars

\* The first view of the image is fully dropped, Image and Device are still
\* held and undestroyed, and a second ImageView::new on the same image has
\* just succeeded.
C5_Witness ==
    /\ viewState[1] = "Destroyed"
    /\ ret.op = "ImageView::new" /\ ret.ok /\ ret.view = 2
    /\ Live(2)
    /\ shared_image[2] = shared_image[1]
    /\ imgWrapper[shared_image[1]] /\ devWrapper[shared_device[1]]
    /\ imgDestroyed[shared_image[1]] = 0 /\ devDestroyed[shared_device[1]] = 0

\* C6 as stated: a failed creation, by ImageView::new or by
\* ImageViewShared::new with any share passed in, leaves the owner counts of
\* the image state and of the device as they were before the call and
\* destroys no native object.
C6_FailedCreateChangesNothing ==
    [][(IsNew(ret') /\ ~ret'.ok) =>
         /\ imgRc' = imgRc
         /\ devRc' = devRc
         /\ imgDestroyed' = imgDestroyed
         /\ devDestroyed' = devDestroyed
         /\ viewDestroys' = viewDestroys]_vars

\* C6 (amended): a failed ImageView::new leaves the owner counts of the image
\* state and of the device as before the call and destroys no native object.
\* A failed ImageViewShared::new releases the device share it took and
\* consumes the image-state share passed in: that count is one less than
\* before the call, and when the share was the last one the native image is
\* destroyed, the image's share of the device is released, and the device is
\* destroyed if that was its last share.  No view is destroyed and nothing
\* is left for the caller to clean up.
C6_FailedCreateReleasesShares ==
    [][(IsNew(ret') /\ ~ret'.ok) =>
         /\ viewDestroys' = viewDestroys
         /\ UNCHANGED <<viewState, native_view, viewHandle, viewRcs>>
         /\ UNCHANGED <<imgWrapper, devWrapper>>
         /\ IF ret'.op = "ImageView::new"
            THEN /\ imgRc' = imgRc
                 /\ devRc' = devRc
                 /\ imgDestroyed' = imgDestroyed
                 /\ devDestroyed' = devDestroyed
                 /\ imgLoose' = imgLoose
                 /\ Cardinality(1..Len(calls')) = 1
            ELSE \E i \in Imgs :
                    LET d == ImgDevice(i)
                        last == imgRc[i] = 1
                        lastDev == last /\ devRc[d] = 1
                    IN  /\ imgLoose' = [imgLoose EXCEPT ![i] = @ - 1]
                        /\ imgRc' = [imgRc EXCEPT ![i] = @ - 1]
                        /\ imgDestroyed' =
                               [imgDestroyed EXCEPT ![i] = @ + (IF last THEN 1 ELSE 0)]
                        /\ devRc' =
                               [devRc EXCEPT ![d] = @ - (IF last THEN 1 ELSE 0)]
                        /\ devDestroyed' =
                               [devDestroyed EXCEPT ![d] = @ + (IF lastDev THEN 1 ELSE 0)]]_vars

\* ImageViewShared::new has just failed on the last share of an image state
\* whose Image, Device and views were dropped: the native image and the
\* device were destroyed by the failed call.
C6_Witness ==
    /\ ret.op = "ImageViewShared::new"
    /\ ~ret.ok
    /\ \E i \in Imgs :
           /\ imgRc[i] = 0
           /\ imgDestroyed[i] = 1
           /\ devDestroyed[ImgDevice(i)] = 1
           /\ CallsOf(calls, "destroy_image") # {}
           /\ CallsOf(calls, "destroy_device") # {}

\* The pair (image, configuration) of a native create call is valid in the
\* sense of the specification: the layer and level counts do not exceed the
\* image's, and the aspect mask matches the image's format class.
ValidPair(ci) ==
    LET i == ImgOfNative(ci.image) IN
    /\ ci.layer_count <= ImgArrayLayers(i)
    /\ ci.level_count <= ImgMipLevels(i)
    /\ ci.aspect_mask = ImgAspect(i)

\* The configuration asks for an aspect the image lacks or for more mip
\* levels than it has.
InvalidPair(ci) ==
    LET i == ImgOfNative(ci.image) IN
    \/ ci.aspect_mask # ImgAspect(i)
    \/ ci.level_count > ImgMipLevels(i)

\* The last operation was ImageView::new on a valid / an invalid pair.
NewValid ==
    ret.op = "ImageView::new" /\ \E c \in Creates(calls) : ValidPair(c.info)
NewInvalid ==
    ret.op = "ImageView::new" /\ \E c \in Creates(calls) : InvalidPair(c.info)

\* C7 as stated: for every valid (image, configuration) pair ImageView::new
\* succeeds and returns a handle whose native() is non-null.
C7_ValidPairAlwaysSucceeds ==
    NewValid =>
        /\ ret.ok
        /\ viewHandle[ret.view]
        /\ native_view[ret.view] # NullHandle

\* C7 (amended): for every valid (image, configuration) pair ImageView::new
\* succeeds whenever the native create call does, and then returns a handle
\* whose native() is the non-null handle that call returned; it fails only
\* when the native call itself fails (the driver is out of memory), with
\* that error.
C7_ValidPairSucceedsIfDriverDoes ==
    NewValid =>
        \A c \in Creates(calls) :
            /\ ret.ok <=> c.result.ok
            /\ ret.ok =>
                   /\ Live(ret.view)
                   /\ viewHandle[ret.view]
                   /\ native_view[ret.view] = c.result.handle
                   /\ native_view[ret.view] # NullHandle
                   /\ ret.val = c.result.handle
            /\ ~ret.ok =>
                   /\ ret.err.code = c.result.code
                   /\ c.result.code \in NativeErrors

\* ImageView::new with the test's configuration has just returned a view with
\* a non-null handle.
C7_Witness ==
    /\ NewValid
    /\ \E c \in Creates(calls) : c.info = ImageViewCreateInfo(ImgNative(1), TestInfo)
    /\ ret.ok
    /\ native_view[ret.view] # NullHandle

C9_Lifecycle ==
    [][\A v \in Views :
         /\ viewState'[v] # viewState[v] =>
                \/ /\ viewState[v] = "Uninitialized" /\ viewState'[v] = "Live"
                   /\ IsNew(ret') /\ ret'.view = v /\ ret'.ok
                   /\ NativeAccepted'
                   /\ Owners(v)' = 1
                \/ /\ viewState[v] = "Live" /\ viewState'[v] = "Destroyed"
                   /\ Owners(v) = 1 /\ Owners(v)' = 0
                   /\ viewDestroys'[v] = viewDestroys[v] + 1
         /\ (IsNew(ret') /\ ret'.view = v /\ NativeFailed') =>
                viewState'[v] = "Uninitialized"
         /\ (viewState[v] = "Live" /\ Owners(v)' = 0) => viewState'[v] = "Destroyed"
         /\ viewState[v] = "Destroyed" =>
                /\ viewState'[v] = "Destroyed"
                /\ viewDestroys'[v] = viewDestroys[v]
                /\ Owners(v)' = 0
         /\ viewState[v] = "Live" => viewState'[v] # "Uninitialized"
         /\ (viewState'[v] = "Live") <=> (Owners(v)' > 0)]_vars

\* One attempt failed and has no state, another went from Live to Destroyed.
C9_Witness ==
    \E v, u \in Views :
        /\ Failed(v)
        /\ viewState[u] = "Destroyed"
        /\ viewDestroys[u] = 1
        /\ nextView > MaxViews

\* C10: native() and native_image() change nothing and return the native
\* view handle fixed at creation and the native handle of the image the view
\* was created from; neither value changes while the view is Live, whatever
\* is shared or dropped in between (other handles of the view, sibling views,
\* the Image).
C10_AccessorsStable ==
    [][\A v \in Views :
         /\ (ret'.op \in {"native", "native_image"} /\ ret'.view = v) =>
                /\ Live(v) /\ viewHandle[v]
                /\ ret'.val = IF ret'.op = "native"
                              THEN native_view[v]
                              ELSE ImgNative(shared_image[v])
                /\ ret'.val # NullHandle
                /\ calls' = << >>
                /\ UNCHANGED <<viewFields, viewOwners, appVars, imgRc, devRc>>
                /\ UNCHANGED <<imgDestroyed, devDestroyed, viewCreates,
                               viewDestroys, nextView>>
         /\ (viewState[v] = "Uninitialized" /\ viewState'[v] = "Live") =>
                \E c \in Creates(calls') :
                    /\ native_view'[v] = c.result.handle
                    /\ ImgNative(shared_image'[v]) = c.info.image
         /\ viewState[v] = "Live" =>
                /\ native_view'[v] = native_view[v]
                /\ shared_image'[v] = shared_image[v]]_vars

\* native_image() has just been read on a view whose Image was dropped, that
\* has a second owner, and whose sibling view is Live as well.
C10_Witness ==
    /\ ret.op = "native_image"
    /\ ret.val = ImgNative(shared_image[ret.view])
    /\ ~imgWrapper[shared_image[ret.view]]
    /\ viewRcs[ret.view] = 1
    /\ \E u \in Views \ {ret.view} : Live(u) /\ native_view[u] # native_view[ret.view]

\* The Live views that hold a share of image state i.
ViewsOf(i) == {v \in Views : Live(v) /\ shared_image[v] = i}

\* C11: views of the same image are independent and a view does not keep the
\* Image wrapper alive: the step that drops the last owner of view A issues
\* the destroy-image-view call for A's handle only and leaves every Live
\* sibling B Live with its handle, image, device and owners as they were and
\* its image and device undestroyed; dropping the Image while a view of it is
\* Live issues no native call and changes no view; and the native image is
\* destroyed only by a step after which neither the Image nor a Live view
\* holds its state, which for an image held by views alone is the step that
\* drops the last of them.
C11_SiblingViewsIndependent ==
    [][/\ \A a \in Views :
             (Owners(a) > 0 /\ Owners(a)' = 0) =>
                 /\ \A k \in CallsOf(calls', "destroy_image_view") :
                        calls'[k].obj = native_view[a]
                 /\ DestroyCallsFor(calls', native_view[a]) = 1
                 /\ \A b \in Views \ {a} :
                        /\ viewDestroys'[b] = viewDestroys[b]
                        /\ Live(b) =>
                               /\ Live(b)'
                               /\ native_view'[b] = native_view[b]
                               /\ native_view'[b] # native_view[a]
                               /\ shared_image'[b] = shared_image[b]
                               /\ shared_device'[b] = shared_device[b]
                               /\ Owners(b)' = Owners(b)
                               /\ imgDestroyed'[shared_image[b]] = 0
                               /\ devDestroyed'[shared_device[b]] = 0
       /\ \A i \in Imgs :
             /\ (imgWrapper[i] /\ ~imgWrapper'[i] /\ ViewsOf(i) # {}) =>
                    /\ calls' = << >>
                    /\ imgDestroyed'[i] = 0
                    /\ imgRc'[i] = imgRc[i] - 1
                    /\ UNCHANGED <<viewFields, viewOwners, viewDestroys>>
             /\ imgDestroyed'[i] # imgDestroyed[i] =>
                    /\ imgDestroyed[i] = 0 /\ imgDestroyed'[i] = 1
                    /\ ~imgWrapper'[i]
                    /\ ViewsOf(i)' = {}
             /\ (~imgWrapper[i] /\ imgLoose[i] = 0
                 /\ ViewsOf(i) # {} /\ ViewsOf(i)' = {}) =>
                    /\ imgDestroyed'[i] = 1
                    /\ Cardinality(CallsOf(calls', "destroy_image")) = 1]_vars

\* View A of the image has just lost its last owner: the step issued one
\* destroy call, for A's handle; its sibling B is Live and owned although the
\* Image was dropped before, and the native image is not destroyed.
C11_Witness ==
    \E a, b \in Views :
        /\ viewState[a] = "Destroyed"
        /\ Len(calls) = 1
        /\ calls[1].op = "destroy_image_view" /\ calls[1].obj = native_view[a]
        /\ Live(b) /\ shared_image[b] = shared_image[a]
        /\ viewHandle[b]
        /\ native_view[b] # NullHandle
        /\ ~imgWrapper[shared_image[b]]
        /\ devWrapper[shared_device[b]]
        /\ imgDestroyed[shared_image[b]] = 0

\* The fields of an ImageViewInfo.
InfoFields == {"format", "image_view_type", "aspect_mask", "layer_count", "level_count"}

\* Records a and b agree on every field but f.
SameBut(a, b, f) == \A g \in InfoFields \ {f} : a[g] = b[g]

\* C12: ImageViewInfo::new() yields the configuration with every field at
\* its default (zero); each setter stores its argument, whatever it is, in
\* its own field and leaves the other four fields as they were; so setters
\* of different fields commute, and of two calls of one setter the last wins.
C12_SettersSetOwnFieldOnly ==
    [][/\ ret'.op = "ImageViewInfo::new" =>
              builder' = [format |-> FORMAT_UNDEFINED, image_view_type |-> TYPE_1D,
                          aspect_mask |-> ASPECT_NONE, layer_count |-> 0,
                          level_count |-> 0]
       /\ ret'.op \in InfoFields => SameBut(builder', builder, ret'.op)
       /\ LET b == builder' IN
          /\ \A f \in Formats :
                 format(b, f).format = f /\ SameBut(format(b, f), b, "format")
          /\ \A t \in ViewTypes :
                 /\ image_view_type(b, t).image_view_type = t
                 /\ SameBut(image_view_type(b, t), b, "image_view_type")
          /\ \A a \in Aspects :
                 /\ aspect_mask(b, a).aspect_mask = a
                 /\ SameBut(aspect_mask(b, a), b, "aspect_mask")
          /\ \A n \in Counts :
                 /\ layer_count(b, n).layer_count = n
                 /\ SameBut(layer_count(b, n), b, "layer_count")
                 /\ level_count(b, n).level_count = n
                 /\ SameBut(level_count(b, n), b, "level_count")
          /\ \A f \in Formats, t \in ViewTypes, a \in Aspects :
                 /\ image_view_type(format(b, f), t) = format(image_view_type(b, t), f)
                 /\ aspect_mask(format(b, f), a) = format(aspect_mask(b, a), f)
                 /\ aspect_mask(image_view_type(b, t), a)
                        = image_view_type(aspect_mask(b, a), t)
          /\ \A n, m \in Counts :
                 /\ level_count(layer_count(b, n), m) = layer_count(level_count(b, m), n)
                 /\ layer_count(layer_count(b, n), m) = layer_count(b, m)
                 /\ level_count(level_count(b, n), m) = level_count(b, m)
                 /\ \A f \in Formats, t \in ViewTypes, a \in Aspects :
                        /\ layer_count(format(b, f), n) = format(layer_count(b, n), f)
                        /\ level_count(format(b, f), n) = format(level_count(b, n), f)
                        /\ layer_count(image_view_type(b, t), n)
                               = image_view_type(layer_count(b, n), t)
                        /\ level_count(image_view_type(b, t), n)
                               = image_view_type(level_count(b, n), t)
                        /\ layer_count(aspect_mask(b, a), n)
                               = aspect_mask(layer_count(b, n), a)
                        /\ level_count(aspect_mask(b, a), n)
                               = aspect_mask(level_count(b, n), a)
          /\ \A f, g \in Formats : format(format(b, f), g) = format(b, g)
          /\ \A t, u \in ViewTypes :
                 image_view_type(image_view_type(b, t), u) = image_view_type(b, u)
          /\ \A a, c \in Aspects :
                 aspect_mask(aspect_mask(b, a), c) = aspect_mask(b, c)]_vars

\* The level count has just been set back to zero on a configuration whose
\* other fields were all set before: they still hold what was set.
C12_Witness ==
    /\ ret.op = "level_count"
    /\ builder = [format |-> FORMAT_R8_UNORM, image_view_type |-> TYPE_2D,
                  aspect_mask |-> ASPECT_DEPTH, layer_count |-> 2,
                  level_count |-> 0]

\* C13: ImageViewShared::image returns one more share of the image state the
\* view holds: the owner count of that image state grows by one and no other
\* count changes, the view keeps its own share, its fields and its owners,
\* and no native call is made; and as long as such a share is held the
\* native image and its device are not destroyed, also after the view and
\* the Image were dropped.
C13_ImageAccessorAddsShare ==
    [][/\ \A v \in Views : (ret'.op = "image" /\ ret'.view = v) =>
              /\ Live(v) /\ Live(v)'
              /\ ret'.ok /\ ret'.val = shared_image[v]
              /\ imgRc' = [imgRc EXCEPT ![shared_image[v]] = @ + 1]
              /\ imgLoose' = [imgLoose EXCEPT ![shared_image[v]] = @ + 1]
              /\ calls' = << >>
              /\ UNCHANGED <<viewFields, viewOwners, viewCreates, viewDestroys>>
              /\ UNCHANGED <<devRc, devDestroyed, imgDestroyed, imgWrapper,
                             devWrapper, nextView>>
       /\ \A i \in Imgs : imgLoose'[i] > 0 =>
              /\ imgRc'[i] >= imgLoose'[i]
              /\ imgDestroyed'[i] = 0
              /\ devDestroyed'[ImgDevice(i)] = 0
              /\ \A k \in CallsOf(calls', "destroy_image") :
                     calls'[k].obj # ImgNative(i)]_vars

\* A share taken from a view is all that is left: the view it came from is
\* destroyed, Image and Device are dropped, and the native image and the
\* device are not destroyed.
C13_Witness ==
    \E v \in Views :
        /\ viewState[v] = "Destroyed"
        /\ imgLoose[shared_image[v]] = 1
        /\ imgRc[shared_image[v]] = 1
        /\ ~imgWrapper[shared_image[v]]
        /\ ~devWrapper[shared_device[v]]
        /\ ViewsOf(shared_image[v]) = {}
        /\ imgDestroyed[shared_image[v]] = 0
        /\ devDestroyed[shared_device[v]] = 0

\* Everything the application or crate code held has been dropped.
AllDropped ==
    /\ \A d \in Devs : ~devWrapper[d]
    /\ \A i \in Imgs : ~imgWrapper[i] /\ imgLoose[i] = 0
    /\ \A v \in Views : Owners(v) = 0

\* The native calls cs of one step are in dependency order.
InOrder(cs) ==
    \A j, k \in 1..Len(cs) :
        /\ (cs[j].op = "destroy_image_view" /\ cs[k].op = "destroy_image") => j < k
        /\ (cs[j].op = "destroy_image_view" /\ cs[k].op = "destroy_device") => j < k
        /\ (cs[j].op = "destroy_image" /\ cs[k].op = "destroy_device") => j < k

\* C14: in whatever order view handles, Image and Device are dropped, the
\* native teardown happens in dependency order: a native image is destroyed
\* only when every view made of it has been destroyed, a device only when
\* its images and the views on it have been, and within one step the
\* destroy-image-view call comes before destroy-image and that before the
\* device's destruction.  The step that releases the last share of an object
\* destroys it, once, and no object is destroyed twice, so when everything is
\* dropped every native object created has been destroyed exactly once.  The
\* drop of the last view handle after the Image first issues
\* destroy-image-view and only then the calls that releasing the image and
\* device shares brings about.
C14_TeardownInDependencyOrder ==
    [][/\ InOrder(calls')
       /\ \A v \in Views :
              /\ viewDestroys'[v] <= 1
              /\ (Live(v) /\ ~Live(v)') => viewDestroys'[v] = viewDestroys[v] + 1
              /\ viewState'[v] = "Destroyed" <=> viewDestroys'[v] = 1
              /\ (Live(v) /\ ~Live(v)' /\ ~imgWrapper[shared_image[v]]) =>
                     /\ calls'[1] = Call("destroy_image_view", shared_device[v],
                                         native_view[v], NoInfo, NoResult)
                     /\ \A k \in 2..Len(calls') :
                            calls'[k].op \in {"destroy_image", "destroy_device"}
                     /\ (imgRc[shared_image[v]] = 1) =>
                            /\ Len(calls') >= 2
                            /\ calls'[2].op = "destroy_image"
                            /\ calls'[2].obj = ImgNative(shared_image[v])
       /\ \A i \in Imgs :
              /\ imgDestroyed'[i] <= 1
              /\ (imgRc[i] > 0 /\ imgRc'[i] = 0) <=> imgDestroyed'[i] = imgDestroyed[i] + 1
              /\ imgRc[i] = 0 => imgRc'[i] = 0 /\ imgDestroyed'[i] = imgDestroyed[i]
              /\ imgDestroyed'[i] > imgDestroyed[i] => devDestroyed[ImgDevice(i)] = 0
              /\ imgDestroyed'[i] = 1 =>
                     /\ \A v \in Views :
                            shared_image'[v] = i => viewDestroys'[v] = 1
       /\ \A d \in Devs :
              /\ devDestroyed'[d] <= 1
              /\ (devRc[d] > 0 /\ devRc'[d] = 0) <=> devDestroyed'[d] = devDestroyed[d] + 1
              /\ devRc[d] = 0 => devRc'[d] = 0 /\ devDestroyed'[d] = devDestroyed[d]
              /\ devDestroyed'[d] = 1 =>
                     /\ \A i \in Imgs : ImgDevice(i) = d => imgRc'[i] = 0
                     /\ \A v \in Views :
                            shared_device'[v] = d => viewDestroys'[v] = 1
       /\ AllDropped' =>
              /\ \A v \in Views :
                     viewDestroys'[v] = (IF viewState'[v] = "Uninitialized" THEN 0 ELSE 1)
              /\ \A i \in Imgs : imgRc'[i] = 0
              /\ \A d \in Devs : devRc'[d] = 0]_vars

\* The last view handle was dropped after the Device and the Image: that one
\* step issued destroy-image-view, destroy-image and the device's destruction
\* in this order, and everything created is destroyed once.
C14_Witness ==
    /\ AllDropped
    /\ Len(calls) = 3
    /\ calls[1].op = "destroy_image_view"
    /\ calls[2].op = "destroy_image"
    /\ calls[3].op = "destroy_device"
    /\ \E v, u \in Views :
           /\ v # u
           /\ calls[1].obj = native_view[v]
           /\ viewDestroys[v] = 1 /\ viewDestroys[u] = 1
           /\ imgDestroyed[shared_image[v]] = 1
           /\ devDestroyed[shared_device[v]] = 1

\* What the native call must be given for image i and configuration info.
PassedThrough(i, info) ==
    [image |-> ImgNative(i), format |-> info.format,
     view_type |-> info.image_view_type, aspect_mask |-> info.aspect_mask,
     base_mip_level |-> 0, level_count |-> info.level_count,
     base_array_layer |-> 0, layer_count |-> info.layer_count]

\* C15: every call of ImageViewShared::new, for every image state a share of
\* which can be passed in, every configuration and every answer of the
\* driver, issues exactly one native call: create-image-view on the device
\* of the image state, for the image's native handle, with the
\* configuration's format, view type, aspect mask, layer count and level
\* count unchanged and base mip level and base array layer zero; it succeeds
\* exactly when that call does, and then the handle stored is the one the
\* call returned.  After every creation the calls recorded are that one
\* call, and the state made holds its device and its handle.
C15_OneCreateCallPassedThrough ==
    /\ \A i \in {j \in Imgs : imgRc[j] > 0}, info \in Infos :
           \A out \in create_image_view(PassedThrough(i, info), nextView) :
               LET r == ImageViewShared_new(World, i, info, out) IN
               /\ Len(r.w.calls) >= 1
               /\ r.w.calls[1] = Call("create_image_view", ImgDevice(i),
                                      ImgNative(i), PassedThrough(i, info), out)
               /\ CallsOf(r.w.calls, "create_image_view") = {1}
               /\ r.ok <=> out.ok
               /\ r.ok => /\ r.fields.native_view = out.handle
                          /\ r.fields.shared_device = ImgDevice(i)
                          /\ r.fields.shared_image = i
                          /\ Len(r.w.calls) = 1
    /\ IsNew(ret) =>
           /\ CallsOf(calls, "create_image_view") = {1}
           /\ \E i \in Imgs, info \in Infos :
                  /\ calls[1].dev = ImgDevice(i)
                  /\ calls[1].obj = ImgNative(i)
                  /\ calls[1].info = PassedThrough(i, info)
           /\ ret.ok <=> calls[1].result.ok
           /\ ret.ok =>
                  /\ Len(calls) = 1
                  /\ native_view[ret.view] = calls[1].result.handle
                  /\ ret.val = calls[1].result.handle
                  /\ shared_device[ret.view] = calls[1].dev
                  /\ ImgNative(shared_image[ret.view]) = calls[1].obj
    /\ \A v \in Views : viewCreates[v] = (IF v < nextView THEN 1 ELSE 0)

\* ImageViewShared::new has just succeeded with a configuration other than
\* the test's: two mip levels were asked for and two were passed to the one
\* native call, whose handle the state stores.
C15_Witness ==
    /\ ret.op = "ImageViewShared::new"
    /\ ret.ok
    /\ Len(calls) = 1
    /\ calls[1].op = "create_image_view"
    /\ calls[1].info.level_count = 2
    /\ calls[1].info.layer_count = 1
    /\ calls[1].info.format = FORMAT_R8_UNORM
    /\ native_view[ret.view] = calls[1].result.handle
    /\ native_view[ret.view] # NullHandle

\* C16: with several devices, the native handle of a view is created on the
\* device of the image the view is made from, that device is the one the
\* view state holds, the state holds the same device (and image and handle)
\* for as long as it is Live, and the destroy call for the handle goes to
\* that same device, which is not destroyed before.
C16_DestroyedOnDeviceOfCreation ==
    [][/\ \A v \in Views :
             /\ (viewState[v] = "Uninitialized" /\ Live(v)') =>
                    /\ Cardinality(Creates(calls')) = 1
                    /\ \A c \in Creates(calls') :
                           /\ c.result.handle = native_view'[v]
                           /\ c.obj = ImgNative(shared_image'[v])
                           /\ c.dev = ImgDevice(shared_image'[v])
                           /\ c.dev = shared_device'[v]
                           /\ devDestroyed'[c.dev] = 0
             /\ Live(v) =>
                    /\ shared_device'[v] = shared_device[v]
                    /\ shared_image'[v] = shared_image[v]
                    /\ native_view'[v] = native_view[v]
                    /\ shared_device[v] = ImgDevice(shared_image[v])
             /\ (Live(v) /\ ~Live(v)') =>
                    /\ devDestroyed[shared_device[v]] = 0
                    /\ DestroyCallsFor(calls', native_view[v]) = 1
                    /\ \A k \in CallsOf(calls', "destroy_image_view") :
                           /\ calls'[k].obj = native_view[v]
                           /\ calls'[k].dev = shared_device[v]
                           /\ calls'[k].dev = ImgDevice(shared_image[v])
       /\ \A k \in CallsOf(calls', "destroy_image_view") :
             \E v \in Views :
                 /\ Live(v) /\ ~Live(v)'
                 /\ calls'[k].obj = native_view[v]
                 /\ calls'[k].dev = shared_device[v]]_vars

\* Views exist on both devices; the one on the second device has just been
\* destroyed, by a call to the second device, after its Image and Device were
\* dropped, while the view on the first device is Live.
C16_Witness ==
    \E v, u \in Views :
        /\ viewState[v] = "Destroyed"
        /\ shared_device[v] = 2
        /\ Len(calls) = 3
        /\ calls[1].op = "destroy_image_view"
        /\ calls[1].obj = native_view[v]
        /\ calls[1].dev = 2
        /\ calls[3].op = "destroy_device" /\ calls[3].dev = 2
        /\ Live(u)
        /\ shared_device[u] = 1
        /\ devDestroyed[1] = 0

====
